---------------------------- MODULE Spec2Model ----------------------------
(***************************************************************************)
(* AuscultSim: the phonocardiogram synthesiser (simulateHeartDataset and   *)
(* its helpers) and the generator table of the page that calls it.         *)
(*                                                                         *)
(* Numbers.  A JavaScript number that the code uses as a time, a rate or a *)
(* fraction is modelled as an exact rational <<n, d>> (d >= 1, lowest      *)
(* terms); sample counts and indices are integers.  Array index i of the   *)
(* code is index i + 1 of the sequence that models the array.              *)
(*                                                                         *)
(* Randomness.  Math.random() and gaussian() are inputs: every draw is     *)
(* chosen with \E from a small set of representative values.               *)
(*                                                                         *)
(* Sample values.  A buffer cell holds the list of the terms that were     *)
(* added to it, in the order of the additions (the cell's value is their   *)
(* sum; a zero-filled cell is the empty list).                             *)
(***************************************************************************)
EXTENDS Integers, Sequences, FiniteSets, TLC

VARIABLES
    pc,              \* position inside simulateHeartDataset
    opts,            \* the destructured HeartSimOptions of the call
    mean_rr,         \* const mean_rr
    T,               \* const T: the drawn RR intervals
    total_duration,  \* let total_duration
    nSamples,        \* const nSamples
    t,               \* const t: the time stamps
    y,               \* const y: the sample buffer
    SSID_sec,        \* const SSID_sec
    idx,             \* let idx: the running sample offset
    beats,           \* the locals of the beats rendered so far, in order
    ret,             \* the returned { t, y }
    fn,              \* the function a direct call applied
    args,            \* its arguments
    res,             \* its result
    selectedDataType,  \* page state: the selected condition id, "" for none
    cyclesValue,       \* page state: cycles[0] (cycles names a parameter here)
    dataCount,         \* page state: dataCount[0]
    datasetCount,      \* page state: datasetCount[0]
    isGenerating,      \* page state
    generatedData,     \* page state: the rows { timestamp, type, series }
    timers,            \* the pending setTimeout callbacks, each with the state it closed over
    calls,             \* the generator calls of the last timer callback, in order
    download           \* the last file handed to the browser, <<>> for none

simVars == <<pc, opts, mean_rr, T, total_duration, nSamples, t, y, SSID_sec, idx, beats, ret>>
callVars == <<fn, args, res>>
pageVars == <<selectedDataType, cyclesValue, dataCount, datasetCount, isGenerating,
              generatedData, timers, calls, download>>
vars == <<pc, opts, mean_rr, T, total_duration, nSamples, t, y, SSID_sec, idx, beats, ret,
          fn, args, res, pageVars>>

---------------------------------------------------------------------------
(* Bounds of the model.                                                    *)

\* the largest cycle count a modelled call is given
MaxCycles == 2
\* the longest input sequence handed to a filter
MaxLen == 3
\* the largest sample count of the page's slider (the sliders are scaled
\* down: the page's own run from 100 to 20000 samples, 5 to 1000 cycles and
\* 1 to 50 datasets)
MaxDataCount == 3
\* the largest dataset count of the page's slider
MaxDatasets == 2

\* the page as useState leaves it on the first render: nothing selected,
\* nothing generated, no timer pending, the sliders at a value of their
\* (scaled) range
PageLoaded ==
    /\ selectedDataType = ""
    /\ cyclesValue = MaxCycles
    /\ dataCount = MaxDataCount
    /\ datasetCount = MaxDatasets
    /\ isGenerating = FALSE
    /\ generatedData = <<>>
    /\ timers = <<>>
    /\ calls = <<>>
    /\ download = <<>>

---------------------------------------------------------------------------
(* Exact rational arithmetic for the code's number expressions.            *)

RECURSIVE GCD(_, _)
GCD(a, b) == IF b = 0 THEN a ELSE GCD(b, a % b)

Abs(a) == IF a < 0 THEN 0 - a ELSE a

Rat(n, d) == LET g == GCD(Abs(n), d) IN <<n \div g, d \div g>>

RInt(n) == <<n, 1>>

\* over the least common denominator
RAdd(p, q) ==
    LET g == GCD(p[2], q[2])
    IN  Rat(p[1] * (q[2] \div g) + q[1] * (p[2] \div g), (p[2] \div g) * q[2])

RSub(p, q) == RAdd(p, <<0 - q[1], q[2]>>)

RMul(p, q) == Rat(p[1] * q[1], p[2] * q[2])

\* p / n for an integer n > 0
RDivInt(p, n) == Rat(p[1], p[2] * n)

RECURSIVE FracLeq(_, _, _, _)
\* a / b <= c / d for b, d > 0, by whole parts and then the remainders'
\* reciprocals, so that no product is formed
FracLeq(a, b, c, d) ==
    IF a \div b # c \div d THEN a \div b < c \div d
    ELSE IF a % b = 0 THEN TRUE
    ELSE IF c % d = 0 THEN FALSE
    ELSE FracLeq(d, c % d, b, a % b)

RLeq(p, q) == FracLeq(p[1], p[2], q[1], q[2])

RLt(p, q) == ~RLeq(q, p)

\* Math.max on two numbers
RMax(p, q) == IF RLeq(p, q) THEN q ELSE p

\* Math.floor
RFloor(p) == p[1] \div p[2]

\* Math.max on two integers
IMax(a, b) == IF a >= b THEN a ELSE b

\* Math.min on two integers
IMin(a, b) == IF a <= b THEN a ELSE b

\* x.length of an array x
Length(x) == Cardinality(DOMAIN x)

RECURSIVE RSum(_, _)
\* T.reduce((s, v) => s + v, 0), from element i on
RSum(s, i) == IF i > Len(s) THEN RInt(0) ELSE RAdd(s[i], RSum(s, i + 1))

---------------------------------------------------------------------------
(* Inputs.                                                                 *)

\* cycle counts of a call: negative, zero and positive
CycleValues == (0 - 1) .. MaxCycles

\* sampling rates fs > 0
FsValues == {1, 10, 50}

\* heart rates hr > 0 (bpm)
HrValues == {75, 400}

\* rrStdFrac >= 0
RrStdFracValues == {<<0, 1>>, <<1, 5>>}

\* values of Math.random(), in [0, 1)
UniformDraws == {<<0, 1>>, <<9, 10>>}

\* values of gaussian(): |Z| < 8.6 for a double u in (0, 1)
BeatDraws ==
    { [a1 |-> 0, a2 |-> 0, f1 |-> 0, f2 |-> 0, d1 |-> 0, d2 |-> 0, ss |-> 0],
      [a1 |-> 1, a2 |-> 0 - 1, f1 |-> 2, f2 |-> 0 - 2, d1 |-> 0 - 7, d2 |-> 0 - 4, ss |-> 0 - 8],
      [a1 |-> 0 - 2, a2 |-> 1, f1 |-> 0 - 1, f2 |-> 1, d1 |-> 2, d2 |-> 3, ss |-> 3] }

OptSet ==
    [ cycles : CycleValues, fs : FsValues, hr : HrValues,
      awgnAmplitude : {<<1, 20>>}, rrStdFrac : RrStdFracValues,
      systolicMurmur : BOOLEAN, diastolicMurmur : BOOLEAN,
      continuousMurmur : BOOLEAN, friction : BOOLEAN, s3s4 : BOOLEAN ]

---------------------------------------------------------------------------
(* Helpers of the synthesiser.                                             *)

\* variant: the end point is an extra, (n + 1)-th point
linspace_ExtraPoint(start, end, n) ==
    LET step == RDivInt(RSub(end, start), IMax(1, n))
    IN  [i \in 1 .. n + 1 |-> RAdd(start, RMul(RInt(i - 1), step))]

linspace(start, end, n) ==
    IF n <= 1 THEN <<start>>
    ELSE LET step == RDivInt(RSub(end, start), n - 1)
         IN  [i \in 1 .. n |-> RAdd(start, RMul(RInt(i - 1), step))]

\* variant: no special case at x = 0, where sin(pi x) / (pi x) is 0 / 0
sinc_NoZeroCase(x) == <<"sinc", x[1], x[2]>>

\* sinc(0) is the number 1; any other value stays the symbolic term
\* sin(pi x) / (pi x), written <<"sinc", n, d>> for x = n/d
sinc(x) == IF x[1] = 0 THEN RInt(1) ELSE <<"sinc", x[1], x[2]>>

\* amplitude * s for s a number or a symbolic sinc term
Scaled(amplitude, s) ==
    IF Len(s) = 2 THEN RMul(amplitude, s) ELSE <<"mul", amplitude, s>>

generate_heart_sound(center_freq, duration, fs, amplitude) ==
    LET n  == IMax(1, RFloor(RMul(RInt(fs), duration)))
        tt == linspace(RSub(RInt(0), RDivInt(duration, 2)), RDivInt(duration, 2), n)
    IN  [i \in 1 .. n |->
            Scaled(amplitude, sinc(RMul(RMul(RInt(2), center_freq), tt[i])))]

RECURSIVE ExpSeries(_, _, _)
\* the terms k, k+1, ... of the power series of exp(q), q and the terms in
\* thousandths
ExpSeries(q, term, k) ==
    IF term = 0 \/ k > 24 THEN 0
    ELSE term + ExpSeries(q, (term * q) \div (1000 * k), k + 1)

\* Math.exp((-2 * Math.PI * fc) / fs) to two decimals
ExpCoef(fc, fs) ==
    LET q == (0 - 6283 * fc) \div fs
    IN  Rat((ExpSeries(q, 1000, 1) + 5) \div 10, 100)

RECURSIVE LowpassFrom(_, _, _, _)
\* the loop of onepole_lowpass from index i on, prev = y[i - 1]
LowpassFrom(x, a, i, prev) ==
    IF i > Len(x) THEN <<>>
    ELSE LET yi == RAdd(RMul(a, prev), RMul(RSub(RInt(1), a), x[i]))
         IN  <<yi>> \o LowpassFrom(x, a, i + 1, yi)

\* variant: only a negative cutoff passes the input through
onepole_lowpass_NegativeOnly(x, fc, fs) ==
    IF fc < 0 THEN x
    ELSE IF Len(x) = 0 THEN <<>>
    ELSE <<RInt(0)>> \o LowpassFrom(x, ExpCoef(fc, fs), 2, RInt(0))

onepole_lowpass(x, fc, fs) ==
    IF fc <= 0 THEN x
    ELSE IF Len(x) = 0 THEN <<>>
    ELSE <<RInt(0)>> \o LowpassFrom(x, ExpCoef(fc, fs), 2, RInt(0))

onepole_highpass(x, fc, fs) ==
    IF fc <= 0 THEN x
    ELSE LET low == onepole_lowpass(x, fc, fs)
         IN  [i \in 1 .. Len(x) |-> RSub(x[i], low[i])]

---------------------------------------------------------------------------
(* simulateHeartDataset.                                                   *)

\* variant: for (let k = 0; k <= cycles; k++)
NumBeats_Inclusive(cycles) == IF cycles >= 0 THEN cycles + 1 ELSE 0

\* iterations of for (let k = 0; k < cycles; k++)
NumBeats(cycles) == IF cycles > 0 THEN cycles ELSE 0

\* variant: hr / 60
MeanRR_Inverted(hr) == Rat(hr, 60)

\* const mean_rr = 60 / hr
MeanRR(hr) == Rat(60, hr)

\* variant: jitter centred on the mean, rrStdFrac * mean_rr * (2 * U - 1)
DrawRR_Centred(mean, frac, U) ==
    RMax(<<1, 5>>, RAdd(mean, RMul(RMul(frac, mean), RSub(RMul(RInt(2), U), RInt(1)))))

\* Math.max(0.2, mean_rr + rrStdFrac * mean_rr * Math.random())
DrawRR(mean, frac, U) == RMax(<<1, 5>>, RAdd(mean, RMul(RMul(frac, mean), U)))

\* variant: no half-second tail
TotalDuration_NoTail(rrs) == RSum(rrs, 1)

\* T.reduce((s, v) => s + v, 0) + 0.5
TotalDuration(rrs) == RAdd(RSum(rrs, 1), <<1, 2>>)

\* Math.max(1, Math.floor(fs * total_duration))
SampleCount(fs, total) == IMax(1, RFloor(RMul(RInt(fs), total)))

\* Math.max(0.02, (210 - 0.5 * hr) / 1000)
SsidSec(hr) == RMax(<<1, 50>>, Rat(420 - hr, 2000))

\* variant: the per-beat interval is not clamped
Ssid_Unclamped(ssidSec, Z) == RAdd(ssidSec, Rat(Z, 100))

\* Math.max(0.02, SSID_sec + 0.01 * gaussian())
Ssid(ssidSec, Z) == RMax(<<1, 50>>, RAdd(ssidSec, Rat(Z, 100)))

\* the cell of an array hole (undefined)
Hole == <<"undefined", 0, 0>>

\* y[start + i] += <term i of src> for i = 0 .. count - 1.  A write at or
\* past y.length extends the array, as an assignment to a JavaScript array
\* does, and adds to undefined.  (b, s and c are buf, start and count, each
\* evaluated once.)
Overlay(buf, start, count, src, k) ==
    CHOOSE r \in
      { [j \in 1 .. (IF c > 0 THEN IMax(Length(b), s + c) ELSE Length(b)) |->
            LET old == IF j <= Length(b) THEN b[j] ELSE <<Hole>>
            IN  IF s < j /\ j <= s + c
                THEN Append(old, <<src, k, j - s - 1>>)
                ELSE old] : b \in {buf}, s \in {start}, c \in {count} } : TRUE

\* variant: for (let i = 0; i < n; i++), no test against the buffer length
ClippedCount_Unclipped(n, start, len) == n

\* iterations of for (let i = 0; i < n && start + i < len; i++)
ClippedCount(n, start, len) == IMax(0, IMin(n, len - start))

\* the constants of one iteration of for (const rr of T), from its draws g
BeatLocals(rr, g, o, at, ssidSec) ==
    LET beat_len == RFloor(RMul(rr, RInt(o.fs)))
        amp_s1   == RAdd(<<4, 5>>, Rat(2 * g.a1, 25))
        amp_s2   == RAdd(<<1, 2>>, Rat(2 * g.a2, 25))
        freq_s1  == RInt(50 + 2 * g.f1)
        freq_s2  == RInt(60 + 2 * g.f2)
        dur_s1   == RMax(<<1, 50>>, RAdd(<<2, 25>>, Rat(g.d1, 100)))
        dur_s2   == RMax(<<1, 50>>, RAdd(<<1, 20>>, Rat(g.d2, 100)))
        SSID     == Ssid(ssidSec, g.ss)
    IN  [ rr |-> rr, Z |-> g.ss, beat_len |-> beat_len, SSID |-> SSID,
          s1 |-> generate_heart_sound(freq_s1, dur_s1, o.fs, amp_s1),
          s2 |-> generate_heart_sound(freq_s2, dur_s2, o.fs, amp_s2),
          s1_start |-> at,
          s2_start |-> at + RFloor(RMul(SSID, RInt(o.fs))) ]

\* floor(c * fs) for a constant c = n/d
FloorOfFs(n, d, fs) == RFloor(RMul(Rat(n, d), RInt(fs)))

\* lines 107-110: S1 and S2
WithS1S2(buf, b, k) ==
    LET a == Overlay(buf, b.s1_start, ClippedCount(Length(b.s1), b.s1_start, Length(buf)), "s1", k)
    IN  Overlay(a, b.s2_start, ClippedCount(Length(b.s2), b.s2_start, Length(a)), "s2", k)

\* lines 113-125
WithSystolic(buf, b, o, k) ==
    LET m_start == b.s1_start + FloorOfFs(1, 50, o.fs)
        m_end   == IMin(Length(buf), b.s2_start - FloorOfFs(1, 100, o.fs))
    IN  IF o.systolicMurmur /\ m_end > m_start
        THEN Overlay(buf, m_start, m_end - m_start, "systolic", k)
        ELSE buf

\* lines 128-140
WithDiastolic(buf, b, o, at, k) ==
    LET m_start == b.s2_start + FloorOfFs(1, 100, o.fs)
        m_end   == IMin(Length(buf), at + b.beat_len - FloorOfFs(1, 50, o.fs))
    IN  IF o.diastolicMurmur /\ m_end > m_start
        THEN Overlay(buf, m_start, m_end - m_start, "diastolic", k)
        ELSE buf

\* lines 143-152
WithContinuous(buf, b, o, at, k) ==
    LET m_start == b.s1_start
        m_end   == IMin(Length(buf), at + b.beat_len)
        len     == IMax(0, m_end - m_start)
    IN  IF o.continuousMurmur /\ len > 0
        THEN Overlay(buf, m_start, len, "continuous", k)
        ELSE buf

\* one burst of the loop of lines 156-160, off = n/d
WithBurst(buf, b, o, at, n, d, src, k) ==
    LET center == at + RFloor(RMul(Rat(n, d), RInt(b.beat_len)))
        dur    == IMax(8, FloorOfFs(1, 50, o.fs))
    IN  Overlay(buf, center, ClippedCount(dur, center, Length(buf)), src, k)

\* lines 155-161
WithFriction(buf, b, o, at, k) ==
    IF o.friction
    THEN WithBurst(WithBurst(buf, b, o, at, 1, 20, "friction1", k), b, o, at, 3, 5, "friction2", k)
    ELSE buf

\* lines 164-171
WithS3S4(buf, b, o, at, k) ==
    LET s3_off == RFloor(RMul(<<7, 10>>, RInt(b.beat_len)))
        s4_off == RFloor(RMul(<<9, 10>>, RInt(b.beat_len)))
        s3     == generate_heart_sound(RInt(40), <<1, 25>>, o.fs, <<1, 4>>)
        s4     == generate_heart_sound(RInt(45), <<1, 25>>, o.fs, <<11, 50>>)
        a      == Overlay(buf, at + s3_off, ClippedCount(Length(s3), at + s3_off, Length(buf)), "s3", k)
    IN  IF o.s3s4
        THEN Overlay(a, at + s4_off, ClippedCount(Length(s4), at + s4_off, Length(a)), "s4", k)
        ELSE buf

\* variant: idx += beat_len moved up, ahead of the friction and S3/S4 blocks
RenderBeat_AdvanceEarly(buf, b, o, at, k) ==
    WithS3S4(
      WithFriction(
        WithContinuous(
          WithDiastolic(
            WithSystolic(WithS1S2(buf, b, k), b, o, k),
            b, o, at, k),
          b, o, at, k),
        b, o, at + b.beat_len, k),
      b, o, at + b.beat_len, k)

\* the overlays of one iteration, lines 107-171, in the order of the code
RenderBeat(buf, b, o, at, k) ==
    WithS3S4(
      WithFriction(
        WithContinuous(
          WithDiastolic(
            WithSystolic(WithS1S2(buf, b, k), b, o, k),
            b, o, at, k),
          b, o, at, k),
        b, o, at, k),
      b, o, at, k)

\* line 177: y[i] += awgnAmplitude * gaussian() for every i < y.length
WithAwgn(buf) == [j \in 1 .. Length(buf) |-> Append(buf[j], <<"awgn", 0, j - 1>>)]

\* lines 84-86: mean_rr and the RR intervals, one Math.random() U[k] per beat
DrawIntervals(o, U) ==
    [k \in 1 .. NumBeats(o.cycles) |-> DrawRR(MeanRR(o.hr), o.rrStdFrac, U[k])]

\* lines 84-88: the intervals, the duration and the sample count
RawLength(o, U) ==
    LET rrs == DrawIntervals(o, U)
    IN  [ hr |-> o.hr, mean_rr |-> MeanRR(o.hr), T |-> rrs,
          total_duration |-> TotalDuration(rrs),
          nSamples |-> SampleCount(o.fs, TotalDuration(rrs)) ]

\* lines 84-90: the RR draws and the allocation of t and y
Allocate(o, U) ==
    LET r == RawLength(o, U)
    IN  [ mean_rr |-> r.mean_rr, T |-> r.T, total_duration |-> r.total_duration,
          nSamples |-> r.nSamples,
          t |-> linspace(RInt(0), r.total_duration, r.nSamples),
          y |-> [j \in 1 .. r.nSamples |-> <<>>] ]

\* lines 84-93: the RR draws and the allocation
SimStart ==
    /\ pc = "start"
    /\ \E U \in [1 .. NumBeats(opts.cycles) -> UniformDraws] :
          LET a == Allocate(opts, U)
          IN  /\ mean_rr' = a.mean_rr
              /\ T' = a.T
              /\ total_duration' = a.total_duration
              /\ nSamples' = a.nSamples
              /\ t' = a.t
              /\ y' = a.y
    /\ SSID_sec' = SsidSec(opts.hr)
    /\ idx' = 0
    /\ pc' = "beats"
    /\ UNCHANGED <<opts, beats, ret, fn, args, res, pageVars>>

\* lines 94-174: one iteration of for (const rr of T)
Beat ==
    /\ pc = "beats"
    /\ Length(beats) < Length(T)
    /\ \E g \in BeatDraws :
          LET k == Length(beats) + 1
              b == BeatLocals(T[k], g, opts, idx, SSID_sec)
          IN  /\ y' = RenderBeat(y, b, opts, idx, k)
              /\ idx' = idx + b.beat_len
              /\ beats' = Append(beats, b)
    /\ UNCHANGED <<pc, opts, mean_rr, T, total_duration, nSamples, t, SSID_sec, ret,
                   fn, args, res, pageVars>>

\* lines 176-179: the global noise and the return
AddNoise ==
    /\ pc = "beats"
    /\ Length(beats) = Length(T)
    /\ y' = WithAwgn(y)
    /\ ret' = [t |-> t, y |-> WithAwgn(y)]
    /\ pc' = "done"
    /\ UNCHANGED <<opts, mean_rr, T, total_duration, nSamples, t, SSID_sec, idx, beats,
                   fn, args, res, pageVars>>

\* a call of simulateHeartDataset(opts) about to run
InitHeart ==
    /\ pc = "start"
    /\ opts \in OptSet
    /\ mean_rr = RInt(0)
    /\ T = <<>>
    /\ total_duration = RInt(0)
    /\ nSamples = 0
    /\ t = <<>>
    /\ y = <<>>
    /\ SSID_sec = RInt(0)
    /\ idx = 0
    /\ beats = <<>>
    /\ ret = [t |-> <<>>, y |-> <<>>]
    /\ fn = "none"
    /\ args = <<>>
    /\ res = <<>>
    /\ PageLoaded

NextHeart == SimStart \/ Beat \/ AddNoise

SpecHeart == InitHeart /\ [][NextHeart]_vars

---------------------------------------------------------------------------
(* simulateHeartDataset as one call, for the callers of the page.          *)

RECURSIVE RenderBeats(_, _, _, _, _, _)
\* the loop for (const rr of T) from beat k on, G[k] the gaussian draws of
\* beat k, at the running offset idx
RenderBeats(buf, rrs, G, o, at, k) ==
    IF k > Length(rrs) THEN buf
    ELSE LET b == BeatLocals(rrs[k], G[k], o, at, SsidSec(o.hr))
         IN  RenderBeats(RenderBeat(buf, b, o, at, k), rrs, G, o, at + b.beat_len, k + 1)

\* the defaults of the destructuring, lines 71-82
HeartDefaults ==
    [ cycles |-> 10, fs |-> 1000, hr |-> 75, awgnAmplitude |-> <<3, 50>>,
      rrStdFrac |-> <<1, 20>>, systolicMurmur |-> FALSE, diastolicMurmur |-> FALSE,
      continuousMurmur |-> FALSE, friction |-> FALSE, s3s4 |-> FALSE ]

\* d.U: the Math.random() draws, d.G: the gaussian draws of each beat
simulateHeartDataset(o, d) ==
    LET a == Allocate(o, d.U)
    IN  [ t |-> a.t, y |-> WithAwgn(RenderBeats(a.y, a.T, d.G, o, 0, 1)) ]

---------------------------------------------------------------------------
(* The libraries the page imports besides the heart synthesiser.           *)

\* resample(t, y, targetCount): linear interpolation of y over its index
\* domain at targetCount evenly spaced positions (v is yy, evaluated once)
resampleToLength(tt, yy, targetCount) ==
    CHOOSE r \in
      { IF targetCount = 1 THEN <<v[1]>>
        ELSE [j \in 1 .. targetCount |->
                LET pos  == Rat((j - 1) * (Length(v) - 1), targetCount - 1)
                    lo   == RFloor(pos)
                    frac == RSub(pos, RInt(lo))
                IN  IF frac[1] = 0 THEN v[lo + 1]
                    ELSE <<"lerp", v[lo + 1], v[lo + 2], frac>>] : v \in {yy} } : TRUE

\* the fetal synthesiser: a waveform whose raw length rawLen is its own
\* affair
simulateFpcgDataset(o, rawLen) ==
    [ t |-> [j \in 1 .. rawLen |-> RInt(j - 1)],
      y |-> [j \in 1 .. rawLen |-> << <<"fpcg", o.cycles_per_sample, j - 1>> >>] ]

\* a lung generator: exactly count samples spanning cycles cycles
LungSignal(kind, count, cycles) ==
    [j \in 1 .. count |-> << <<kind, cycles, j - 1>> >>]

genNormalLungSignal(count, cycles) == LungSignal("normal_lung", count, cycles)

genCoarseCracklesSignal(count, cycles) == LungSignal("coarse_crackles", count, cycles)

genFineCracklesSignal(count, cycles) == LungSignal("fine_crackles", count, cycles)

genWheezeSignal(count, cycles) == LungSignal("wheeze", count, cycles)

---------------------------------------------------------------------------
(* The per-type entry points of the page.  d holds the random draws of the *)
(* call: d.U, d.G for the heart synthesiser, d.raw for the fetal one.      *)

genNormalHeart(count, cycles, d) ==
    LET w == simulateHeartDataset(
                 [HeartDefaults EXCEPT !.cycles = cycles, !.hr = 75,
                     !.rrStdFrac = <<3, 100>>, !.awgnAmplitude = <<1, 20>>], d)
    IN  resampleToLength(w.t, w.y, count)

genValveDisease(count, cycles, d) ==
    LET w == simulateHeartDataset(
                 [HeartDefaults EXCEPT !.cycles = cycles, !.hr = 75,
                     !.systolicMurmur = TRUE, !.diastolicMurmur = FALSE,
                     !.continuousMurmur = FALSE, !.awgnAmplitude = <<1, 20>>], d)
    IN  resampleToLength(w.t, w.y, count)

genPericardial(count, cycles, d) ==
    LET w == simulateHeartDataset(
                 [HeartDefaults EXCEPT !.cycles = cycles, !.hr = 75,
                     !.friction = TRUE, !.awgnAmplitude = <<1, 20>>], d)
    IN  resampleToLength(w.t, w.y, count)

genCongenital(count, cycles, d) ==
    LET w == simulateHeartDataset(
                 [HeartDefaults EXCEPT !.cycles = cycles, !.hr = 80,
                     !.continuousMurmur = TRUE, !.awgnAmplitude = <<1, 20>>], d)
    IN  resampleToLength(w.t, w.y, count)

\* variant: the raw buffer is returned without resampling
genHeartFailure_Raw(count, cycles, d) ==
    simulateHeartDataset(
        [HeartDefaults EXCEPT !.cycles = cycles, !.hr = 65,
            !.s3s4 = TRUE, !.awgnAmplitude = <<1, 20>>], d).y

genHeartFailure(count, cycles, d) ==
    LET w == simulateHeartDataset(
                 [HeartDefaults EXCEPT !.cycles = cycles, !.hr = 65,
                     !.s3s4 = TRUE, !.awgnAmplitude = <<1, 20>>], d)
    IN  resampleToLength(w.t, w.y, count)

genArrhythmia(count, cycles, d) ==
    LET w == simulateHeartDataset(
                 [HeartDefaults EXCEPT !.cycles = cycles, !.hr = 75,
                     !.rrStdFrac = <<1, 5>>, !.awgnAmplitude = <<1, 20>>], d)
    IN  resampleToLength(w.t, w.y, count)

\* the six fetal entries differ only in the options they fix
FetalEntry(count, cycles, d, variant) ==
    LET w == simulateFpcgDataset(
                 [cycles_per_sample |-> IMax(1, cycles), variant |-> variant], d.raw)
    IN  resampleToLength(w.t, w.y, count)

genFhsNormal(count, cycles, d) == FetalEntry(count, cycles, d, "normal")

genFhsArrhythmia(count, cycles, d) == FetalEntry(count, cycles, d, "rr_std_frac 0.15")

genFhsMoveStrong(count, cycles, d) == FetalEntry(count, cycles, d, "movement 2.0 x 12")

genFhsMoveWeak(count, cycles, d) == FetalEntry(count, cycles, d, "movement 0.4 x 4")

genFhsUcFast(count, cycles, d) == FetalEntry(count, cycles, d, "uc 6.0 [10, 20]")

genFhsUcSlow(count, cycles, d) == FetalEntry(count, cycles, d, "uc 1.0 [20, 40]")

genNormalLung(count, cycles) == genNormalLungSignal(count, cycles)

genCoarseCrackles(count, cycles) == genCoarseCracklesSignal(count, cycles)

genFineCrackles(count, cycles) == genFineCracklesSignal(count, cycles)

genWheezes(count, cycles) == genWheezeSignal(count, cycles)

\* const generators: the own properties of the table, each naming its entry
generators ==
    [ normal_heart |-> "genNormalHeart", valve_disease |-> "genValveDisease",
      pericardial_disease |-> "genPericardial", congenital_disease |-> "genCongenital",
      heart_failure |-> "genHeartFailure", arrhythmia |-> "genArrhythmia",
      fhs_normal |-> "genFhsNormal", fhs_arrhythmia |-> "genFhsArrhythmia",
      fhs_move_strong |-> "genFhsMoveStrong", fhs_move_weak |-> "genFhsMoveWeak",
      fhs_uc_fast |-> "genFhsUcFast", fhs_uc_slow |-> "genFhsUcSlow",
      normal_lung |-> "genNormalLung", coarse_crackles |-> "genCoarseCrackles",
      fine_crackles |-> "genFineCrackles", wheezes |-> "genWheezes" ]

\* generators is an object literal: a key it does not own is looked up on
\* Object.prototype, whose members these are
ObjectPrototypeKeys ==
    { "constructor", "toString", "toLocaleString", "valueOf", "hasOwnProperty",
      "isPrototypeOf", "propertyIsEnumerable", "__proto__" }

\* generators[key]
GetProperty(key) ==
    IF key \in DOMAIN generators THEN generators[key]
    ELSE IF key \in ObjectPrototypeKeys THEN "Object.prototype." \o key
    ELSE "undefined"

\* const gen = generators[selectedDataType] ?? genNormalHeart
SelectGenerator(id) ==
    IF GetProperty(id) = "undefined" THEN "genNormalHeart"
    ELSE GetProperty(id)

\* gen(count, cycles): a member of Object.prototype is no generator, and
\* the call, or the .map on what it returns, throws a TypeError
CallGenerator(gen, count, cycles, d) ==
    CASE gen = "genNormalHeart"    -> genNormalHeart(count, cycles, d)
      [] gen = "genValveDisease"   -> genValveDisease(count, cycles, d)
      [] gen = "genPericardial"    -> genPericardial(count, cycles, d)
      [] gen = "genCongenital"     -> genCongenital(count, cycles, d)
      [] gen = "genHeartFailure"   -> genHeartFailure(count, cycles, d)
      [] gen = "genArrhythmia"     -> genArrhythmia(count, cycles, d)
      [] gen = "genFhsNormal"      -> genFhsNormal(count, cycles, d)
      [] gen = "genFhsArrhythmia"  -> genFhsArrhythmia(count, cycles, d)
      [] gen = "genFhsMoveStrong"  -> genFhsMoveStrong(count, cycles, d)
      [] gen = "genFhsMoveWeak"    -> genFhsMoveWeak(count, cycles, d)
      [] gen = "genFhsUcFast"      -> genFhsUcFast(count, cycles, d)
      [] gen = "genFhsUcSlow"      -> genFhsUcSlow(count, cycles, d)
      [] gen = "genNormalLung"     -> genNormalLung(count, cycles)
      [] gen = "genCoarseCrackles" -> genCoarseCrackles(count, cycles)
      [] gen = "genFineCrackles"   -> genFineCrackles(count, cycles)
      [] gen = "genWheezes"        -> genWheezes(count, cycles)
      [] OTHER                     -> "TypeError"

\* generate(conditionId, sampleCount, cycles)
generate(id, count, cycles, d) == CallGenerator(SelectGenerator(id), count, cycles, d)

---------------------------------------------------------------------------
(* Direct calls of the functions, each on inputs of its own: one call per  *)
(* behaviour, from the state in which nothing has been called.             *)

\* the sample values handed to a filter
XValues == {RInt(0 - 1), RInt(0), <<1, 2>>}

FilterInputs == UNION { [1 .. n -> XValues] : n \in 0 .. MaxLen }

\* cutoff frequencies: negative, zero, positive
FcValues == {0 - 1, 0, 1, 4}

\* condition identifiers: the registered ones, the empty and an unknown one,
\* and names every object inherits
IdValues ==
    DOMAIN generators \cup {"", "unknown_condition", "toString", "constructor", "__proto__"}

\* requested sample counts
SampleCounts == {1, 3, 100}

\* heart rates of the calls that only size the buffer
AllocHrValues == {65, 75, 80, 299, 300, 400}

\* the Math.random() draws of a call with n beats
DrawSeqs(n) ==
    IF n <= MaxCycles + 1 THEN [1 .. n -> UniformDraws]
    ELSE { [k \in 1 .. n |-> u] : u \in UniformDraws }

\* the draws of one generate call with n heart beats
GenDraws(n) ==
    { [U |-> [k \in 1 .. n |-> u], G |-> [k \in 1 .. n |-> g], raw |-> r] :
        u \in UniformDraws, g \in BeatDraws, r \in {1, 4} }

\* the options of the calls that only size the buffer; the scenario of the
\* testable properties (rrStdFrac 0, 10 cycles, 75 bpm, 1000 Hz) is one
AllocOpts ==
    { [HeartDefaults EXCEPT !.cycles = c, !.hr = h, !.fs = f, !.rrStdFrac = r] :
        c \in {0, 10}, h \in {75, 100}, f \in {100, 1000}, r \in RrStdFracValues }

PairOpts ==
    { [HeartDefaults EXCEPT !.cycles = c, !.hr = h, !.fs = f, !.rrStdFrac = r] :
        c \in CycleValues, h \in AllocHrValues, f \in {10, 1000}, r \in RrStdFracValues }

CallLowpass ==
    /\ fn = "none"
    /\ \E x \in FilterInputs, fc \in FcValues, fs \in {10} :
          /\ fn' = "onepole_lowpass"
          /\ args' = [x |-> x, fc |-> fc, fs |-> fs]
          /\ res' = onepole_lowpass(x, fc, fs)
    /\ UNCHANGED <<simVars, pageVars>>

CallHighpass ==
    /\ fn = "none"
    /\ \E x \in FilterInputs, fc \in FcValues, fs \in {10} :
          /\ fn' = "onepole_highpass"
          /\ args' = [x |-> x, fc |-> fc, fs |-> fs]
          /\ res' = onepole_highpass(x, fc, fs)
    /\ UNCHANGED <<simVars, pageVars>>

CallPulse ==
    /\ fn = "none"
    /\ \E cf \in {RInt(40), RInt(50)}, dur \in {<<1, 50>>, <<3, 100>>, <<2, 25>>},
          fs \in {1, 10, 50, 100, 1000}, amp \in {<<4, 5>>, <<1, 4>>} :
          /\ fn' = "generate_heart_sound"
          /\ args' = [center_freq |-> cf, duration |-> dur, fs |-> fs, amplitude |-> amp]
          /\ res' = [ signal |-> generate_heart_sound(cf, dur, fs, amp),
                      t |-> linspace(RSub(RInt(0), RDivInt(dur, 2)), RDivInt(dur, 2),
                                     IMax(1, RFloor(RMul(RInt(fs), dur)))) ]
    /\ UNCHANGED <<simVars, pageVars>>

\* simulateHeartDataset up to the allocation of its buffer
CallAllocate ==
    /\ fn = "none"
    /\ \E o \in AllocOpts :
          \E U \in DrawSeqs(NumBeats(o.cycles)) :
             /\ fn' = "allocate"
             /\ args' = [o |-> o, U |-> U]
             /\ res' = Allocate(o, U)
    /\ UNCHANGED <<simVars, pageVars>>

\* two calls that differ in the heart rate only, sized side by side
CallAllocatePair ==
    /\ fn = "none"
    /\ \E o1 \in PairOpts, hr2 \in AllocHrValues :
          /\ o1.hr < hr2
          /\ \E U1 \in DrawSeqs(NumBeats(o1.cycles)), U2 \in DrawSeqs(NumBeats(o1.cycles)) :
                /\ fn' = "allocate_pair"
                /\ args' = [o1 |-> o1, o2 |-> [o1 EXCEPT !.hr = hr2], U1 |-> U1, U2 |-> U2]
                /\ res' = <<RawLength(o1, U1), RawLength([o1 EXCEPT !.hr = hr2], U2)>>
    /\ UNCHANGED <<simVars, pageVars>>

\* line 166
CallLookup ==
    /\ fn = "none"
    /\ \E id \in IdValues :
          /\ fn' = "lookup"
          /\ args' = [id |-> id]
          /\ res' = SelectGenerator(id)
    /\ UNCHANGED <<simVars, pageVars>>

CallGenerate ==
    /\ fn = "none"
    /\ \E id \in IdValues, N \in SampleCounts, C \in 0 .. MaxCycles :
          \E d \in GenDraws(C) :
             /\ fn' = "generate"
             /\ args' = [id |-> id, sampleCount |-> N, cycles |-> C, d |-> d]
             /\ res' = generate(id, N, C, d)
    /\ UNCHANGED <<simVars, pageVars>>

InitCalls ==
    /\ pc = "idle"
    /\ opts = HeartDefaults
    /\ mean_rr = RInt(0)
    /\ T = <<>>
    /\ total_duration = RInt(0)
    /\ nSamples = 0
    /\ t = <<>>
    /\ y = <<>>
    /\ SSID_sec = RInt(0)
    /\ idx = 0
    /\ beats = <<>>
    /\ ret = [t |-> <<>>, y |-> <<>>]
    /\ fn = "none"
    /\ args = <<>>
    /\ res = <<>>
    /\ PageLoaded

NextCalls ==
    \/ CallLowpass
    \/ CallHighpass
    \/ CallPulse
    \/ CallAllocate
    \/ CallAllocatePair
    \/ CallLookup
    \/ CallGenerate

SpecCalls == InitCalls /\ [][NextCalls]_vars

---------------------------------------------------------------------------
(* The sizing of the buffer in the arithmetic of the JavaScript number,    *)
(* the IEEE-754 double.  A value v >= 0 is the integer v * 2^60 written in *)
(* Limbs digits of LimbBits bits, least significant first; every operation *)
(* computes the exact result and rounds it to a 53-bit significand, ties   *)
(* to even.  A double >= 1/8 is a multiple of 2^-55, so every double of    *)
(* the sizing has such a digit string.                                     *)

\* bits of the significand of a double
Significand == 53

\* bits of a digit: the product of two digits stays below 2^31
LimbBits == 15

\* digits of a value, the lowest FracLimbs of them below 1: values stay
\* below 2^30
Limbs == 6

FracLimbs == 4

Base == 2 ^ LimbBits

BZero == <<0, 0, 0, 0, 0, 0>>

\* the integer n, 0 <= n < 2^30
BInt(n) == <<0, 0, 0, 0, n % Base, n \div Base>>

\* bit i of a, i = 1 the lowest
BBit(a, i) == (a[(i - 1) \div LimbBits + 1] \div (2 ^ ((i - 1) % LimbBits))) % 2

\* number of the highest set bit, 0 for the value 0
BTop(a) ==
    LET S == {i \in 1 .. Limbs * LimbBits : BBit(a, i) = 1}
    IN  IF S = {} THEN 0 ELSE CHOOSE i \in S : \A j \in S : j <= i

RECURSIVE BAddFrom(_, _, _, _)
\* digits i .. Limbs of a + b, c the carry into digit i
BAddFrom(a, b, i, c) ==
    IF i > Limbs THEN <<>>
    ELSE <<(a[i] + b[i] + c) % Base>> \o BAddFrom(a, b, i + 1, (a[i] + b[i] + c) \div Base)

\* a + b, exact
BAdd(a, b) == BAddFrom(a, b, 1, 0)

RECURSIVE BMulFrom(_, _, _, _)
\* digits i .. Limbs of n * a, c the carry into digit i
BMulFrom(a, n, i, c) ==
    IF i > Limbs THEN <<>>
    ELSE <<(a[i] * n + c) % Base>> \o BMulFrom(a, n, i + 1, (a[i] * n + c) \div Base)

\* n * a for an integer 0 <= n < 2^15, exact
BMulInt(a, n) == BMulFrom(a, n, 1, 0)

\* a < b
BLt(a, b) ==
    \E i \in 1 .. Limbs : a[i] < b[i] /\ \A j \in (i + 1) .. Limbs : a[j] = b[j]

\* digit i of a without its lowest LimbBits * q + r bits
BKept(a, i, q, r) ==
    IF i <= q THEN 0
    ELSE IF i = q + 1 THEN a[i] - (a[i] % (2 ^ r))
    ELSE a[i]

\* digit i of the value 2^(LimbBits * q + r)
BUnit(i, q, r) == IF i = q + 1 THEN 2 ^ r ELSE 0

\* the double nearest to a (to a little more than a when sticky), ties to
\* even: the bits below the top 53 are dropped and the rest moves up by one
\* unit when they are more than half a unit, or half and the last kept bit
\* is odd
BRound(a, sticky) ==
    LET cut == BTop(a) - Significand
    IN  IF cut <= 0 THEN a
        ELSE LET q     == cut \div LimbBits
                 r     == cut % LimbBits
                 below == sticky \/ \E i \in 1 .. (cut - 1) : BBit(a, i) = 1
                 kept  == <<BKept(a, 1, q, r), BKept(a, 2, q, r), BKept(a, 3, q, r),
                            BKept(a, 4, q, r), BKept(a, 5, q, r), BKept(a, 6, q, r)>>
                 ulp   == <<BUnit(1, q, r), BUnit(2, q, r), BUnit(3, q, r),
                            BUnit(4, q, r), BUnit(5, q, r), BUnit(6, q, r)>>
             IN  IF BBit(a, cut) = 1 /\ (below \/ BBit(a, cut + 1) = 1)
                 THEN BAdd(kept, ulp)
                 ELSE kept

RECURSIVE BFracRem(_, _, _)
\* the remainder left after k fraction digits of r / d, 0 <= r < d < 2^15
BFracRem(r, d, k) == IF k = 0 THEN r ELSE (BFracRem(r, d, k - 1) * Base) % d

\* fraction digit k of r / d, k = 1 the digit just below 1
BFracDigit(r, d, k) == (BFracRem(r, d, k - 1) * Base) \div d

\* n / d for integers n >= 0 and 0 < d < 2^15: the quotient to FracLimbs
\* digits, rounded, the remainder making it sticky
BDiv(n, d) ==
    BRound(<<BFracDigit(n % d, d, 4), BFracDigit(n % d, d, 3),
             BFracDigit(n % d, d, 2), BFracDigit(n % d, d, 1),
             (n \div d) % Base, (n \div d) \div Base>>,
           BFracRem(n % d, d, FracLimbs) # 0)

\* Math.floor
BFloor(a) == a[FracLimbs + 1] + Base * a[FracLimbs + 2]

\* const mean_rr = 60 / hr
DoubleMeanRR(hr) == BDiv(60, hr)

\* Math.max(0.2, mean_rr + rrStdFrac * mean_rr * Math.random()) for
\* rrStdFrac = 0: the product is 0 and the sum is mean_rr
DoubleDrawRR(mean) == IF BLt(mean, BDiv(1, 5)) THEN BDiv(1, 5) ELSE mean

RECURSIVE DoubleSum(_, _)
\* T.reduce((s, v) => s + v, 0): the sum of the first k intervals, rounded
\* after every addition
DoubleSum(rrs, k) ==
    IF k = 0 THEN BZero ELSE BRound(BAdd(DoubleSum(rrs, k - 1), rrs[k]), FALSE)

\* T.reduce(...) + 0.5
DoubleTotalDuration(rrs) == BRound(BAdd(DoubleSum(rrs, Len(rrs)), BDiv(1, 2)), FALSE)

\* Math.max(1, Math.floor(fs * total_duration))
DoubleSampleCount(fs, total) == IMax(1, BFloor(BRound(BMulInt(total, fs), FALSE)))

\* Math.floor(rr * fs)
DoubleBeatLen(rr, fs) == BFloor(BRound(BMulInt(rr, fs), FALSE))

\* the calls sized in doubles: rrStdFrac = 0
DoubleOpts ==
    { [HeartDefaults EXCEPT !.cycles = c, !.hr = h, !.fs = f, !.rrStdFrac = <<0, 1>>] :
        c \in 0 .. 10, h \in {50, 60, 75, 100, 120}, f \in {1, 10, 50, 100, 1000} }

\* lines 84-88 in doubles: mean_rr, T, total_duration and nSamples
DoubleRawLength(o) ==
    LET mean  == DoubleMeanRR(o.hr)
        rr    == DoubleDrawRR(mean)
        rrs   == [k \in 1 .. NumBeats(o.cycles) |-> rr]
        total == DoubleTotalDuration(rrs)
    IN  [ mean_rr |-> mean, T |-> rrs, total_duration |-> total,
          nSamples |-> DoubleSampleCount(o.fs, total) ]

\* lines 84-93 in doubles
SizeBuffer ==
    /\ pc = "start"
    /\ \E r \in {DoubleRawLength(opts)} :
          /\ mean_rr' = r.mean_rr
          /\ T' = r.T
          /\ total_duration' = r.total_duration
          /\ nSamples' = r.nSamples
          /\ y' = [j \in 1 .. r.nSamples |-> <<>>]
    /\ idx' = 0
    /\ pc' = "beats"
    /\ UNCHANGED <<opts, t, SSID_sec, beats, ret, fn, args, res, pageVars>>

\* lines 94-95 and 173 in doubles: the offset of one beat
AdvanceOffset ==
    /\ pc = "beats"
    /\ Len(beats) < Len(T)
    /\ LET k        == Len(beats) + 1
           beat_len == DoubleBeatLen(T[k], opts.fs)
       IN  /\ beats' = Append(beats, [rr |-> T[k], beat_len |-> beat_len, s1_start |-> idx])
           /\ idx' = idx + beat_len
    /\ UNCHANGED <<pc, opts, mean_rr, T, total_duration, nSamples, t, y, SSID_sec, ret,
                   fn, args, res, pageVars>>

\* the loop is over
LastBeatDone ==
    /\ pc = "beats"
    /\ Len(beats) = Len(T)
    /\ pc' = "done"
    /\ UNCHANGED <<opts, mean_rr, T, total_duration, nSamples, t, y, SSID_sec, idx, beats,
                   ret, fn, args, res, pageVars>>

InitDouble ==
    /\ pc = "start"
    /\ opts \in DoubleOpts
    /\ mean_rr = BZero
    /\ T = <<>>
    /\ total_duration = BZero
    /\ nSamples = 0
    /\ t = <<>>
    /\ y = <<>>
    /\ SSID_sec = RInt(0)
    /\ idx = 0
    /\ beats = <<>>
    /\ ret = [t |-> <<>>, y |-> <<>>]
    /\ fn = "none"
    /\ args = <<>>
    /\ res = <<>>
    /\ PageLoaded

NextDouble == SizeBuffer \/ AdvanceOffset \/ LastBeatDone

SpecDouble == InitDouble /\ [][NextDouble]_vars

---------------------------------------------------------------------------
(* The page: its state, its handlers and the timer of handleGenerate.  A   *)
(* row of generatedData is { timestamp, type, series }; its value, the     *)
(* generated sample scaled and with noise added, is left out.              *)

\* the cards the runs click: a heart and a lung condition of dataTypes
PageIds == {"normal_heart", "wheezes"}

\* the positions of the (scaled) sliders
CycleSteps == {1, MaxCycles}

DataCountSteps == {2, MaxDataCount}

DatasetCountSteps == {1, MaxDatasets}

\* the random draws behind one generator call of the page
PageDraws(n) == {d \in GenDraws(n) : d.U[1] = <<9, 10>> /\ d.G[1].ss = 3 /\ d.raw = 4}

\* gen(dataCount[0], cycles[0]) for every call the page can make, each
\* evaluated once
GeneratedValues ==
    [k \in UNION { {<<id, N, C, d>> : d \in PageDraws(C)} :
                      id \in PageIds, N \in DataCountSteps, C \in CycleSteps } |->
        generate(k[1], k[2], k[3], k[4])] @@ <<>>

\* the rows pushed for one series s: one per element of values, in order
SeriesRows(values, type, s) ==
    [i \in 1 .. Len(values) |-> [timestamp |-> i - 1, type |-> type, series |-> s]]

RECURSIVE AllRows(_, _, _, _)
\* lines 168-173: the rows of the series s .. totalSeries - 1, ds[s] the
\* draws of the call for series s
AllRows(c, ds, s, totalSeries) ==
    IF s >= totalSeries THEN <<>>
    ELSE SeriesRows(GeneratedValues[<<c.selectedDataType, c.dataCount, c.cycles, ds[s]>>],
                    c.selectedDataType, s)
         \o AllRows(c, ds, s + 1, totalSeries)

\* onClick of a condition card, line 257
ClickCard ==
    /\ \E id \in PageIds : selectedDataType' = id
    /\ UNCHANGED <<simVars, callVars, cyclesValue, dataCount, datasetCount, isGenerating,
                   generatedData, timers, calls, download>>

\* onValueChange of the sliders, lines 287, 293, 306
SetCycles ==
    /\ \E v \in CycleSteps : cyclesValue' = v
    /\ UNCHANGED <<simVars, callVars, selectedDataType, dataCount, datasetCount, isGenerating,
                   generatedData, timers, calls, download>>

SetDataCount ==
    /\ \E v \in DataCountSteps : dataCount' = v
    /\ UNCHANGED <<simVars, callVars, selectedDataType, cyclesValue, datasetCount, isGenerating,
                   generatedData, timers, calls, download>>

SetDatasetCount ==
    /\ \E v \in DatasetCountSteps : datasetCount' = v
    /\ UNCHANGED <<simVars, callVars, selectedDataType, cyclesValue, dataCount, isGenerating,
                   generatedData, timers, calls, download>>

\* variant: the Start Generation button is never disabled
ClickStart_NeverDisabled ==
    /\ Len(timers) < 3
    /\ IF selectedDataType = ""
       THEN UNCHANGED <<isGenerating, timers>>
       ELSE /\ isGenerating' = TRUE
            /\ timers' = Append(timers, [ selectedDataType |-> selectedDataType,
                                          cycles |-> cyclesValue, dataCount |-> dataCount,
                                          datasetCount |-> datasetCount ])
    /\ UNCHANGED <<simVars, callVars, selectedDataType, cyclesValue, dataCount, datasetCount,
                   generatedData, calls, download>>

\* a click on Start Generation: the button is disabled while isGenerating
\* (line 312); handleGenerate up to setTimeout (lines 161-164), the callback
\* closing over the state of this render
ClickStart ==
    /\ ~isGenerating
    /\ IF selectedDataType = ""
       THEN UNCHANGED <<isGenerating, timers>>
       ELSE /\ isGenerating' = TRUE
            /\ timers' = Append(timers, [ selectedDataType |-> selectedDataType,
                                          cycles |-> cyclesValue, dataCount |-> dataCount,
                                          datasetCount |-> datasetCount ])
    /\ UNCHANGED <<simVars, callVars, selectedDataType, cyclesValue, dataCount, datasetCount,
                   generatedData, calls, download>>

\* variant: the callback reads the state of the page when the timer fires
TimerFires_ReadsState ==
    /\ timers # <<>>
    /\ LET c           == [ selectedDataType |-> Head(timers).selectedDataType,
                            cycles |-> cyclesValue, dataCount |-> dataCount,
                            datasetCount |-> datasetCount ]
           gen         == SelectGenerator(c.selectedDataType)
           totalSeries == IMax(1, c.datasetCount)
       IN  /\ \E ds \in [0 .. totalSeries - 1 -> PageDraws(c.cycles)] :
                 generatedData' = AllRows(c, ds, 0, totalSeries)
           /\ calls' = [s \in 1 .. totalSeries |->
                           [gen |-> gen, count |-> c.dataCount, cycles |-> c.cycles]]
    /\ isGenerating' = FALSE
    /\ timers' = Tail(timers)
    /\ UNCHANGED <<simVars, callVars, selectedDataType, cyclesValue, dataCount, datasetCount,
                   download>>

\* the callback of setTimeout, lines 165-175
TimerFires ==
    /\ timers # <<>>
    /\ LET c           == Head(timers)
           gen         == SelectGenerator(c.selectedDataType)
           totalSeries == IMax(1, c.datasetCount)
       IN  /\ \E ds \in [0 .. totalSeries - 1 -> PageDraws(c.cycles)] :
                 generatedData' = AllRows(c, ds, 0, totalSeries)
           /\ calls' = [s \in 1 .. totalSeries |->
                           [gen |-> gen, count |-> c.dataCount, cycles |-> c.cycles]]
    /\ isGenerating' = FALSE
    /\ timers' = Tail(timers)
    /\ UNCHANGED <<simVars, callVars, selectedDataType, cyclesValue, dataCount, datasetCount,
                   download>>

\* the rows as the lines of the CSV text, line 184 (without the value)
CsvLines(rows) == [i \in 1 .. Len(rows) |-> <<rows[i].timestamp, rows[i].type, rows[i].series>>]

\* a click on Download: the button is disabled while generatedData is empty
\* (line 326); handleDownload, lines 179-192
ClickDownload ==
    /\ generatedData # <<>>
    /\ download' = [ filename |-> <<"auscultsim_", selectedDataType, "_data.csv">>,
                     header |-> "timestamp,value,type,series",
                     lines |-> CsvLines(generatedData) ]
    /\ UNCHANGED <<simVars, callVars, selectedDataType, cyclesValue, dataCount, datasetCount,
                   isGenerating, generatedData, timers, calls>>

InitPage ==
    /\ pc = "idle"
    /\ opts = HeartDefaults
    /\ mean_rr = RInt(0)
    /\ T = <<>>
    /\ total_duration = RInt(0)
    /\ nSamples = 0
    /\ t = <<>>
    /\ y = <<>>
    /\ SSID_sec = RInt(0)
    /\ idx = 0
    /\ beats = <<>>
    /\ ret = [t |-> <<>>, y |-> <<>>]
    /\ fn = "none"
    /\ args = <<>>
    /\ res = <<>>
    /\ PageLoaded

NextPage ==
    \/ ClickCard
    \/ SetCycles
    \/ SetDataCount
    \/ SetDatasetCount
    \/ ClickStart
    \/ TimerFires
    \/ ClickDownload

SpecPage == InitPage /\ [][NextPage]_vars

\* setTimeout runs its callback: a pending timer does fire
SpecPageLive == SpecPage /\ WF_vars(TimerFires)

---------------------------------------------------------------------------
(* Claims.                                                                 *)

\* C1: for every registered id, every sampleCount N >= 1 and every cycles
\* C >= 0, generate(id, N, C) returns a sequence of exactly N samples.
C1_GenerateLength ==
    (fn = "generate" /\ args.id \in DOMAIN generators) => Len(res) = args.sampleCount

\* a cardiac entry with two beats was resampled from its raw buffer to 100
C1_Witness ==
    /\ fn = "generate"
    /\ args.id = "heart_failure"
    /\ args.cycles = 2
    /\ args.sampleCount = 100
    /\ Len(res) = 100

\* C2 (as stated): an identifier that is not registered selects
\* genNormalHeart, a registered one selects its own entry.
C2_LookupFallsBack ==
    fn = "lookup" =>
        IF args.id \in DOMAIN generators THEN res = generators[args.id]
        ELSE res = "genNormalHeart"

\* C3: the returned waveform has len(t) = len(y), and t starts at 0 and
\* never decreases.
C3_Waveform ==
    pc = "done" =>
        /\ Len(ret.t) = Len(ret.y)
        /\ ret.t[1] = RInt(0)
        /\ \A i \in 1 .. Len(ret.t) - 1 : RLeq(ret.t[i], ret.t[i + 1])

\* a two-beat call with gallop and friction returned
C3_Witness ==
    /\ pc = "done"
    /\ opts.cycles = 2
    /\ opts.s3s4
    /\ opts.friction
    /\ Len(ret.y) > 50
    /\ RLt(ret.t[1], ret.t[2])

\* C4 (as stated): a cycle count <= 0 draws no RR interval, renders no
\* beat, and returns floor(0.5 * fs) samples holding the noise term only.
C4_TailOnlyFloor ==
    (pc = "done" /\ opts.cycles <= 0) =>
        /\ T = <<>>
        /\ beats = <<>>
        /\ Len(ret.y) = FloorOfFs(1, 2, opts.fs)
        /\ \A i \in 1 .. Len(ret.y) : ret.y[i] = << <<"awgn", 0, i - 1>> >>

\* C4 (amended): ... and returns max(1, floor(0.5 * fs)) samples holding the
\* noise term only.
C4_TailOnly ==
    (pc = "done" /\ opts.cycles <= 0) =>
        /\ T = <<>>
        /\ beats = <<>>
        /\ Len(ret.y) = IMax(1, FloorOfFs(1, 2, opts.fs))
        /\ \A i \in 1 .. Len(ret.y) : ret.y[i] = << <<"awgn", 0, i - 1>> >>

\* a call with a negative cycle count and every artifact flag set returned
\* the 25 samples of the tail at 50 Hz
C4_Witness ==
    /\ pc = "done"
    /\ opts.cycles < 0
    /\ opts.fs = 50
    /\ opts.friction /\ opts.s3s4 /\ opts.continuousMurmur
    /\ Len(ret.y) = 25

\* C5: with fc <= 0, onepole_lowpass and onepole_highpass return the input,
\* element for element.
C5_PassThrough ==
    (fn \in {"onepole_lowpass", "onepole_highpass"} /\ args.fc <= 0) =>
        /\ Len(res) = Len(args.x)
        /\ \A i \in 1 .. Len(args.x) : res[i] = args.x[i]

\* both filters were applied with fc = 0 to an input that is not all zero
C5_Witness ==
    /\ fn = "onepole_highpass"
    /\ args.fc = 0
    /\ Len(args.x) = 3
    /\ args.x[2] = <<1, 2>>
    /\ res = args.x

\* C6: one RR interval per beat, each max(0.2, mean_rr + f * mean_rr * U)
\* for a U in [0, 1): at least 0.2 s and at least mean_rr = 60 / hr.
C6_RRIntervals ==
    pc # "start" =>
        /\ Len(T) = NumBeats(opts.cycles)
        /\ Len(beats) <= Len(T)
        /\ pc = "done" => Len(beats) = Len(T)
        /\ \A k \in 1 .. Len(beats) : beats[k].rr = T[k]
        /\ mean_rr = Rat(60, opts.hr)
        /\ \A k \in 1 .. Len(T) :
              /\ \E U \in UniformDraws :
                    T[k] = RMax(<<1, 5>>,
                                RAdd(mean_rr, RMul(RMul(opts.rrStdFrac, mean_rr), U)))
              /\ RLeq(<<1, 5>>, T[k])
              /\ RLeq(mean_rr, T[k])

\* two beats at 75 bpm were rendered, one with the mean interval and one
\* with a lengthened one
C6_Witness ==
    /\ pc = "done"
    /\ opts.hr = 75
    /\ Len(beats) = 2
    /\ T[1] = mean_rr
    /\ RLt(mean_rr, T[2])

\* C7 (as stated): the systole interval of every beat is
\* max(0.02, (210 - 0.5 * hr) / 1000 + 0.01 * Z).
C7_SystoleSingleClamp ==
    \A k \in 1 .. Len(beats) :
        beats[k].SSID = RMax(<<1, 50>>, RAdd(Rat(420 - opts.hr, 2000), Rat(beats[k].Z, 100)))

\* C7 (amended): the systole interval of every beat is
\* max(0.02, max(0.02, (210 - 0.5 * hr) / 1000) + 0.01 * Z); it places S2
\* floor(SSID * fs) samples after S1, is never below 0.02 s and, for a fixed
\* Z, does not increase with hr.
C7_Systole ==
    \A k \in 1 .. Len(beats) :
        /\ beats[k].SSID =
              RMax(<<1, 50>>,
                   RAdd(RMax(<<1, 50>>, Rat(420 - opts.hr, 2000)), Rat(beats[k].Z, 100)))
        /\ beats[k].s2_start = beats[k].s1_start + RFloor(RMul(beats[k].SSID, RInt(opts.fs)))
        /\ RLeq(<<1, 50>>, beats[k].SSID)
        /\ \A h \in HrValues :
              /\ h > opts.hr => RLeq(Ssid(SsidSec(h), beats[k].Z), beats[k].SSID)
              /\ h < opts.hr => RLeq(beats[k].SSID, Ssid(SsidSec(h), beats[k].Z))

\* a beat at 400 bpm, where (210 - 0.5 * hr) / 1000 is below 0.02, drew Z = 3
C7_Witness ==
    /\ opts.hr = 400
    /\ Len(beats) >= 1
    /\ beats[1].Z = 3
    /\ beats[1].SSID = <<1, 20>>

\* C8 (as stated): generate_heart_sound returns floor(fs * duration) samples.
C8_PulseFloorLength ==
    fn = "generate_heart_sound" =>
        Len(res.signal) = RFloor(RMul(RInt(args.fs), args.duration))

\* C8 (amended): generate_heart_sound returns max(1, floor(fs * duration))
\* samples, taken at t evenly spaced over [-duration/2, duration/2] (a single
\* sample at -duration/2), and a sample at t = 0 equals amplitude.
C8_Pulse ==
    fn = "generate_heart_sound" =>
        LET n == IMax(1, RFloor(RMul(RInt(args.fs), args.duration)))
            h == RDivInt(args.duration, 2)
        IN  /\ Len(res.signal) = n
            /\ Len(res.t) = n
            /\ res.t[1] = RSub(RInt(0), h)
            /\ n >= 2 => res.t[n] = h
            /\ \A i \in 1 .. n - 1 :
                  RSub(res.t[i + 1], res.t[i]) = RDivInt(args.duration, n - 1)
            /\ \A i \in 1 .. n : res.t[i] = RInt(0) => res.signal[i] = args.amplitude

\* a pulse of three samples whose middle one, at t = 0, is the amplitude
C8_Witness ==
    /\ fn = "generate_heart_sound"
    /\ Len(res.signal) = 3
    /\ res.t[2] = RInt(0)
    /\ res.signal[2] = args.amplitude
    /\ res.signal[1] # args.amplitude

\* C9: with rrStdFrac = 0, cycles = 10, hr = 75 and fs = 1000 every RR
\* interval is 0.8 s, the raw duration 8.5 s and the buffer 8500 samples.
C9_Scenario ==
    (fn = "allocate" /\ args.o = [HeartDefaults EXCEPT !.cycles = 10, !.hr = 75, !.fs = 1000,
                                 !.rrStdFrac = <<0, 1>>]) =>
        /\ res.mean_rr = <<4, 5>>
        /\ Len(res.T) = 10
        /\ \A k \in 1 .. Len(res.T) : res.T[k] = <<4, 5>>
        /\ res.total_duration = <<17, 2>>
        /\ res.nSamples = 8500
        /\ Len(res.y) = 8500
        /\ Len(res.t) = 8500

\* the scenario was run with every Math.random() draw at 0.9
C9_Witness ==
    /\ fn = "allocate"
    /\ args.o = [HeartDefaults EXCEPT !.cycles = 10, !.hr = 75, !.fs = 1000,
                                 !.rrStdFrac = <<0, 1>>]
    /\ args.U[1] = <<9, 10>>
    /\ res.nSamples = 8500

\* C10 (as stated): for hr1 < hr2, equal rrStdFrac and cycles >= 1, the
\* mean RR and the raw buffer length for hr2 are strictly smaller.
C10_StrictlyShorter ==
    (fn = "allocate_pair" /\ args.o1.cycles >= 1) =>
        /\ RLt(res[2].mean_rr, res[1].mean_rr)
        /\ res[2].nSamples < res[1].nSamples

\* C10 (amended): for hr1 < hr2, equal rrStdFrac and cycles >= 1, the mean
\* RR for hr2 is strictly smaller, and when both calls draw the same
\* Math.random() values the raw buffer for hr2 is not longer.
C10_NotLonger ==
    (fn = "allocate_pair" /\ args.o1.cycles >= 1) =>
        /\ RLt(res[2].mean_rr, res[1].mean_rr)
        /\ args.U1 = args.U2 => res[2].nSamples <= res[1].nSamples

\* two two-beat calls with jitter and the same draws, the faster one shorter
C10_Witness ==
    /\ fn = "allocate_pair"
    /\ args.o1.cycles = 2
    /\ args.o1.rrStdFrac = <<1, 5>>
    /\ args.U1 = args.U2
    /\ args.U1[2] = <<9, 10>>
    /\ res[2].nSamples < res[1].nSamples

\* C11: every overlay write of simulateHeartDataset lands on an index inside
\* the buffer (S1 and S2 at their start offset plus the sample number), no
\* write extends the buffer, and the buffer keeps the allocated nSamples.
C11_OverlaysInBounds ==
    pc \in {"beats", "done"} =>
        /\ Len(y) = nSamples
        /\ pc = "done" => Len(ret.y) = nSamples
        /\ \A j \in 1 .. Len(y) : \A m \in 1 .. Len(y[j]) :
              LET term == y[j][m]
              IN  /\ term # Hole
                  /\ term[3] >= 0
                  /\ term[1] # "awgn" => term[2] \in 1 .. Len(beats)
                  /\ term[1] = "s1" => j - 1 = beats[term[2]].s1_start + term[3]
                  /\ term[1] = "s2" => j - 1 = beats[term[2]].s2_start + term[3]

\* the second friction burst of a beat reached the last sample of the buffer
\* and was cut there, short of its 8 samples
C11_Witness ==
    /\ pc = "done"
    /\ opts.friction
    /\ opts.fs = 10
    /\ Len(beats) = 2
    /\ Len(y) = nSamples
    /\ \E m \in 1 .. Len(y[Len(y)]) :
          /\ y[Len(y)][m][1] = "friction2"
          /\ y[Len(y)][m][2] = 2
          /\ y[Len(y)][m][3] < 7

\* C12: beat k is rendered from the k-th drawn RR interval, its S1 starts at
\* the sum of floor(RR_i * fs) over the earlier beats, every artifact of the
\* beat is placed from that same offset (the offset moves on only after
\* them), beats are written in order, and the noise term comes last, after
\* the last beat.
C12_BeatOrder ==
    pc \in {"beats", "done"} =>
        /\ \A k \in 1 .. Len(beats) :
              /\ beats[k].rr = T[k]
              /\ beats[k].beat_len = RFloor(RMul(T[k], RInt(opts.fs)))
              /\ beats[k].s1_start =
                    IF k = 1 THEN 0
                    ELSE beats[k - 1].s1_start + RFloor(RMul(T[k - 1], RInt(opts.fs)))
        /\ idx = IF beats = <<>> THEN 0
                 ELSE beats[Len(beats)].s1_start + beats[Len(beats)].beat_len
        /\ \A j \in 1 .. Len(y) : \A m \in 1 .. Len(y[j]) :
              LET term == y[j][m]
                  b    == beats[term[2]]
                  at   == j - 1 - term[3]
              IN  /\ term[1] = "awgn" =>
                        pc = "done" /\ Len(beats) = Len(T) /\ m = Len(y[j])
                  /\ (term[1] # "awgn" /\ m > 1) => y[j][m - 1][2] <= term[2]
                  /\ term[1] \in {"s1", "continuous"} => at = b.s1_start
                  /\ term[1] = "friction1" =>
                        at = b.s1_start + RFloor(RMul(<<1, 20>>, RInt(b.beat_len)))
                  /\ term[1] = "friction2" =>
                        at = b.s1_start + RFloor(RMul(<<3, 5>>, RInt(b.beat_len)))
                  /\ term[1] = "s3" =>
                        at = b.s1_start + RFloor(RMul(<<7, 10>>, RInt(b.beat_len)))
                  /\ term[1] = "s4" =>
                        at = b.s1_start + RFloor(RMul(<<9, 10>>, RInt(b.beat_len)))

\* two beats with different intervals, gallop and friction were rendered
\* and the noise added
C12_Witness ==
    /\ pc = "done"
    /\ opts.fs = 50
    /\ opts.s3s4 /\ opts.friction /\ opts.continuousMurmur
    /\ Len(beats) = 2
    /\ T[1] # T[2]
    /\ beats[2].s1_start = 40
    /\ idx > 80

\* C13 (as stated): after the last beat idx + floor(0.5 * fs) <= len(y), and
\* every beat's start offset lies inside the buffer.
C13_TailFollows ==
    pc = "done" =>
        /\ idx + FloorOfFs(1, 2, opts.fs) <= Len(y)
        /\ \A k \in 1 .. Len(beats) : beats[k].s1_start < Len(y)


\* C14: the generation that completes when the timer of a click fires calls
\* the generator registered for the condition of that click max(1,
\* datasetCount) times, each time with the dataCount and cycles of that
\* click, and replaces generatedData by max(1, datasetCount) * dataCount
\* rows: series s holds the timestamps 0 .. dataCount - 1 in order, and every
\* row carries the condition of the click as its type.
C14_CompletedGeneration ==
    [][(timers # <<>> /\ timers' = Tail(timers)) =>
          LET c == Head(timers)
              n == IMax(1, c.datasetCount)
              N == c.dataCount
          IN  /\ Len(calls') = n
              /\ \A s \in 1 .. n :
                    calls'[s] = [gen |-> generators[c.selectedDataType],
                                 count |-> N, cycles |-> c.cycles]
              /\ Len(generatedData') = n * N
              /\ \A s \in 0 .. n - 1 : \A i \in 0 .. N - 1 :
                    generatedData'[s * N + i + 1] =
                        [timestamp |-> i, type |-> c.selectedDataType, series |-> s]]_vars

\* a generation of two series has completed, the sliders of the page no
\* longer where its click found them
C14_Witness ==
    /\ ~isGenerating
    /\ Len(calls) = 2
    /\ calls[1].gen = "genWheezes"
    /\ Len(generatedData) = 2 * calls[1].count
    /\ generatedData[Len(generatedData)].series = 1
    /\ dataCount # calls[1].count
    /\ cyclesValue # calls[1].cycles
    /\ datasetCount # Len(calls)

\* C15: at most one generation is pending at any time, and isGenerating is
\* true exactly while one is; no generation starts while isGenerating is
\* true; every started generation eventually sets isGenerating back to
\* false, in the step that stores its rows and ends its timer; and while
\* no condition is selected no step, a click on Start Generation included,
\* changes isGenerating or generatedData or starts a timer.
C15_OnePending ==
    /\ [](Len(timers) <= 1 /\ (isGenerating <=> timers # <<>>))
    /\ [][isGenerating => Len(timers') <= Len(timers)]_vars
    /\ [][selectedDataType = "" =>
             /\ isGenerating' = isGenerating
             /\ generatedData' = generatedData
             /\ timers' = timers]_vars
    /\ [][(isGenerating /\ ~isGenerating') =>
             /\ timers' = <<>>
             /\ Len(generatedData') = IMax(1, timers[1].datasetCount) * timers[1].dataCount
             /\ generatedData'[1].type = timers[1].selectedDataType]_vars
    /\ isGenerating ~> ~isGenerating

\* a second generation is pending, the rows of the first one stored
C15_Witness ==
    /\ isGenerating
    /\ Len(timers) = 1
    /\ calls # <<>>
    /\ generatedData # <<>>
    /\ timers[1].selectedDataType # generatedData[1].type

\* C16: whenever a download has been produced, the condition id in its file
\* name auscultsim_<id>_data.csv is the type of every exported row.
C16_FileNameMatchesRows ==
    download # <<>> =>
        \A i \in 1 .. Len(download.lines) : download.lines[i][2] = download.filename[2]

=============================================================================
